---- MODULE Spec2Model ----
(***************************************************************************)
(* Model of the RadiaCode session object (radiacode/radiacode.py): the     *)
(* request/response framer `execute`, the register operations built on it  *)
(* and the initialization sequence run by the constructor.                 *)
(*                                                                         *)
(* Byte strings are sequences of integers in 0..255.  A BytesBuffer is a   *)
(* record [data, pos]: the bytes received and the read cursor.             *)
(***************************************************************************)
EXTENDS Integers, Sequences, FiniteSets, TLC

VARIABLES
    pc,         \* a step of __init__, "Failed", "Ready" (idle) or "Returned" (a call ended)
    seq,        \* self._seq
    base_time,  \* self._base_time (NoTime until __init__ sets it)
    sfv,        \* self._spectrum_format_version (-1 until __init__ sets it)
    ignore_fw,  \* the constructor's ignore_firmware_compatibility_check argument
    nreq,       \* number of request buffers handed to the transport so far
    exchanges,  \* the request buffers __init__ handed to the transport, in order
    sent_byte,  \* the sequence byte of the request sent most recently (-1: none yet)
    last        \* the last operation: its arguments, the exchange, its outcome

vars == <<pc, seq, base_time, sfv, ignore_fw, nreq, exchanges, sent_byte, last>>

(***************************************************************************)
(* Bounds of the model.                                                    *)
(***************************************************************************)
MaxRequests == 34   \* requests per session: enough for the counter to wrap
MaxData     == 3    \* bytes that may follow the length field of a read response
MaxDeclared == 1    \* largest declared length in a read response
MaxBatch    == 2    \* largest number of ids in one batch read
MaxChannel  == 4    \* largest spectrum channel number converted to an energy
MaxCoef     == 2    \* calibration coefficients range over -MaxCoef..MaxCoef

(***************************************************************************)
(* Byte-string helpers: struct.pack / struct.unpack, little-endian.        *)
(***************************************************************************)
None == <<-1>>      \* Python None where a byte string is optional

OrEmpty(args) == IF args = None THEN <<>> ELSE args

LE32(n) == << n % 256, (n \div 256) % 256, (n \div 65536) % 256, (n \div 16777216) % 256 >>

U32(b) == b[1] + 256 * b[2] + 65536 * b[3] + 16777216 * b[4]

U16(b) == b[1] + 256 * b[2]

RECURSIVE Concat(_)
Concat(ss) == IF ss = <<>> THEN <<>> ELSE Head(ss) \o Concat(Tail(ss))

RECURSIVE SeqsUpTo(_, _)
SeqsUpTo(S, n) ==
    IF n = 0 THEN { <<>> }
    ELSE LET shorter == SeqsUpTo(S, n - 1)
         IN  shorter \cup { Append(s, x) : s \in shorter, x \in S }

(***************************************************************************)
(* BytesBuffer: a byte string with a read cursor.                          *)
(***************************************************************************)
NoBuf == [data |-> <<>>, pos |-> -1]     \* no buffer was returned

BytesBuffer(bytes) == [data |-> bytes, pos |-> 0]

size(r) == Len(r.data) - r.pos

data(r) == SubSeq(r.data, r.pos + 1, Len(r.data))

CanUnpack(r, n) == r.pos + n <= Len(r.data)

Peek(r, n) == SubSeq(r.data, r.pos + 1, r.pos + n)

Skip(r, n) == [r EXCEPT !.pos = r.pos + n]

(***************************************************************************)
(* The transport: execute(bytes) returns one response buffer or raises.    *)
(***************************************************************************)
NoResponse == [ok |-> FALSE, bytes |-> None]     \* nothing was asked of the transport

TransportFail == [ok |-> FALSE, bytes |-> <<>>]  \* the transport raised

Received(bytes) == [ok |-> TRUE, bytes |-> bytes]

(***************************************************************************)
(* RadiaCode.execute.  The result record carries the counter after the     *)
(* call, what was handed to the transport, and the buffer returned.        *)
(***************************************************************************)
ReqSeqNo(c) == 128 + c

\* mutant: the modulus is off by one
NextSeq_Mod33(c) == (c + 1) % 33

NextSeq(c) == (c + 1) % 32

ReqHeader(reqtype, c) == reqtype \o <<0>> \o << ReqSeqNo(c) >>

\* mutant: the length prefix counts itself too
FullRequest_CountsPrefix(reqtype, c, args) ==
    LET request == ReqHeader(reqtype, c) \o OrEmpty(args)
    IN  LE32(Len(request) + 4) \o request

FullRequest(reqtype, c, args) ==
    LET request == ReqHeader(reqtype, c) \o OrEmpty(args)
    IN  LE32(Len(request)) \o request

\* mutant: only the sequence byte of the echoed header is compared
HeaderCheck_SeqOnly(req_header, resp_header) == req_header[4] = resp_header[4]

HeaderCheck(req_header, resp_header) == req_header = resp_header

Outcome(status, c, sent, request, response, buf, values) ==
    [status |-> status, seq |-> c, sent |-> sent, request |-> request,
     response |-> response, buf |-> buf, values |-> values]

Raise(e, status) == [e EXCEPT !.status = status, !.buf = NoBuf, !.values = <<>>]

\* mutant: the counter is put back when the exchange fails
execute_RollsBack(c, reqtype, args, resp) ==
    IF Len(reqtype) # 2
    THEN Outcome("Precondition", c, FALSE, <<>>, NoResponse, NoBuf, <<>>)
    ELSE LET req_header   == ReqHeader(reqtype, c)
             full_request == FullRequest(reqtype, c, args)
             response     == BytesBuffer(resp.bytes)
             sent         == Outcome("ok", NextSeq(c), TRUE, full_request, resp, NoBuf, <<>>)
             failed       == [sent EXCEPT !.seq = c]
         IN  IF ~resp.ok THEN Raise(failed, "TransportError")
             ELSE IF ~CanUnpack(response, 4) THEN Raise(failed, "Underflow")
             ELSE IF ~HeaderCheck(req_header, Peek(response, 4))
                  THEN Raise(failed, "ProtocolMismatch")
             ELSE [sent EXCEPT !.buf = Skip(response, 4)]

\* mutant: the header is compared without moving the cursor past it
execute_CursorAtStart(c, reqtype, args, resp) ==
    IF Len(reqtype) # 2
    THEN Outcome("Precondition", c, FALSE, <<>>, NoResponse, NoBuf, <<>>)
    ELSE LET req_header   == ReqHeader(reqtype, c)
             full_request == FullRequest(reqtype, c, args)
             response     == BytesBuffer(resp.bytes)
             sent         == Outcome("ok", NextSeq(c), TRUE, full_request, resp, NoBuf, <<>>)
         IN  IF ~resp.ok THEN Raise(sent, "TransportError")
             ELSE IF ~CanUnpack(response, 4) THEN Raise(sent, "Underflow")
             ELSE IF ~HeaderCheck(req_header, Peek(response, 4))
                  THEN Raise(sent, "ProtocolMismatch")
             ELSE [sent EXCEPT !.buf = response]

execute(c, reqtype, args, resp) ==
    IF Len(reqtype) # 2
    THEN Outcome("Precondition", c, FALSE, <<>>, NoResponse, NoBuf, <<>>)
    ELSE LET req_header   == ReqHeader(reqtype, c)
             full_request == FullRequest(reqtype, c, args)
             response     == BytesBuffer(resp.bytes)
             sent         == Outcome("ok", NextSeq(c), TRUE, full_request, resp, NoBuf, <<>>)
         IN  IF ~resp.ok THEN Raise(sent, "TransportError")
             ELSE IF ~CanUnpack(response, 4) THEN Raise(sent, "Underflow")
             ELSE IF ~HeaderCheck(req_header, Peek(response, 4))
                  THEN Raise(sent, "ProtocolMismatch")
             ELSE [sent EXCEPT !.buf = Skip(response, 4)]

(***************************************************************************)
(* RadiaCode.read_request                                                  *)
(***************************************************************************)
OpRead == <<38, 8>>     \* b'\x26\x08'

\* mutant: the extra byte is dropped whatever its value
TrimTrailingZero_AnyByte(r, flen) ==
    IF size(r) = flen + 1
    THEN [r EXCEPT !.data = SubSeq(r.data, 1, Len(r.data) - 1)]
    ELSE r

\* mutant: the tolerance is generalised to any run of trailing zero bytes
TrimTrailingZero_AllZeros(r, flen) ==
    IF size(r) > flen /\ \A i \in (r.pos + flen + 1)..Len(r.data) : r.data[i] = 0
    THEN [r EXCEPT !.data = SubSeq(r.data, 1, r.pos + flen)]
    ELSE r

TrimTrailingZero(r, flen) ==
    IF size(r) = flen + 1 /\ r.data[Len(r.data)] = 0
    THEN [r EXCEPT !.data = SubSeq(r.data, 1, Len(r.data) - 1)]
    ELSE r

RetcodeOk(retcode) == retcode = 1

\* mutant: the length is checked before the return code
read_request_LengthFirst(c, command_id, resp) ==
    LET e == execute(c, OpRead, LE32(command_id), resp)
        r == e.buf
    IN  IF e.status # "ok" THEN e
        ELSE IF ~CanUnpack(r, 8) THEN Raise(e, "Underflow")
        ELSE LET retcode == U32(Peek(r, 4))
                 flen    == U32(Peek(Skip(r, 4), 4))
                 r2      == TrimTrailingZero(Skip(r, 8), flen)
             IN  IF size(r2) # flen THEN Raise(e, "LengthMismatch")
                 ELSE IF ~RetcodeOk(retcode) THEN Raise(e, "DeviceRejected")
                 ELSE [e EXCEPT !.buf = r2]

read_request(c, command_id, resp) ==
    LET e == execute(c, OpRead, LE32(command_id), resp)
        r == e.buf
    IN  IF e.status # "ok" THEN e
        ELSE IF ~CanUnpack(r, 8) THEN Raise(e, "Underflow")
        ELSE LET retcode == U32(Peek(r, 4))
                 flen    == U32(Peek(Skip(r, 4), 4))
                 r2      == TrimTrailingZero(Skip(r, 8), flen)
             IN  IF ~RetcodeOk(retcode) THEN Raise(e, "DeviceRejected")
                 ELSE IF size(r2) # flen THEN Raise(e, "LengthMismatch")
                 ELSE [e EXCEPT !.buf = r2]

(***************************************************************************)
(* RadiaCode.write_request                                                 *)
(***************************************************************************)
OpWrite == <<37, 8>>    \* b'\x25\x08'

WritePayload(command_id, wdata) == LE32(command_id) \o OrEmpty(wdata)

Exhausted(r) == size(r) = 0

\* mutant: bytes left after the return code are not looked at
write_request_NoSizeCheck(c, command_id, wdata, resp) ==
    LET e == execute(c, OpWrite, WritePayload(command_id, wdata), resp)
        r == e.buf
    IN  IF e.status # "ok" THEN e
        ELSE IF ~CanUnpack(r, 4) THEN Raise(e, "Underflow")
        ELSE IF ~RetcodeOk(U32(Peek(r, 4))) THEN Raise(e, "DeviceRejected")
        ELSE [e EXCEPT !.buf = NoBuf]

write_request(c, command_id, wdata, resp) ==
    LET e == execute(c, OpWrite, WritePayload(command_id, wdata), resp)
        r == e.buf
    IN  IF e.status # "ok" THEN e
        ELSE IF ~CanUnpack(r, 4) THEN Raise(e, "Underflow")
        ELSE IF ~RetcodeOk(U32(Peek(r, 4))) THEN Raise(e, "DeviceRejected")
        ELSE IF ~Exhausted(Skip(r, 4)) THEN Raise(e, "TrailingBytes")
        ELSE [e EXCEPT !.buf = NoBuf]

(***************************************************************************)
(* RadiaCode.batch_read_vsfrs                                              *)
(***************************************************************************)
OpBatch == <<42, 8>>    \* b'\x2a\x08'

BatchPayload(vsfr_ids) == Concat([i \in 1..Len(vsfr_ids) |-> LE32(vsfr_ids[i])])

\* mutant: the words come out in reverse order
RECURSIVE UnpackWords_Reversed(_, _)
UnpackWords_Reversed(r, k) ==
    IF k = 0 THEN [ok |-> TRUE, vals |-> <<>>, buf |-> r]
    ELSE IF ~CanUnpack(r, 4) THEN [ok |-> FALSE, vals |-> <<>>, buf |-> r]
    ELSE LET rest == UnpackWords_Reversed(Skip(r, 4), k - 1)
         IN  [rest EXCEPT !.vals = rest.vals \o << U32(Peek(r, 4)) >>]

\* [r.unpack('<I')[0] for _ in range(k)]: the words read, and whether all k were there
RECURSIVE UnpackWords(_, _)
UnpackWords(r, k) ==
    IF k = 0 THEN [ok |-> TRUE, vals |-> <<>>, buf |-> r]
    ELSE IF ~CanUnpack(r, 4) THEN [ok |-> FALSE, vals |-> <<>>, buf |-> r]
    ELSE LET rest == UnpackWords(Skip(r, 4), k - 1)
         IN  [rest EXCEPT !.vals = << U32(Peek(r, 4)) >> \o rest.vals]

batch_read_vsfrs(c, vsfr_ids, resp) ==
    IF Len(vsfr_ids) = 0
    THEN Outcome("Precondition", c, FALSE, <<>>, NoResponse, NoBuf, <<>>)
    ELSE LET e == execute(c, OpBatch, BatchPayload(vsfr_ids), resp)
             u == UnpackWords(e.buf, Len(vsfr_ids))
         IN  IF e.status # "ok" THEN e
             ELSE IF ~u.ok THEN Raise(e, "Underflow")
             ELSE IF ~Exhausted(u.buf) THEN Raise(e, "TrailingBytes")
             ELSE [e EXCEPT !.buf = NoBuf, !.values = u.vals]

(***************************************************************************)
(* Register ids (radiacode.types).                                         *)
(***************************************************************************)
VS_CONFIGURATION == 2

VS_DATA_BUF == 256

VSFR_DEVICE_TIME == 1284

VSFR_SOUND_ON == 1314

VS_SPECTRUM == 512

VS_ENERGY_CALIB == 514

VS_SPEC_ACCUM == 517

(***************************************************************************)
(* RadiaCode.set_local_time, device_time, fw_version, configuration        *)
(***************************************************************************)
OpInit == <<7, 0>>           \* b'\x07\x00'

InitArgs == <<1, 255, 18, 255>>  \* b'\x01\xff\x12\xff'

OpSetTime == <<4, 10>>       \* b'\x04\x0a'

OpFwVersion == <<10, 0>>     \* b'\x0a\x00'

NoTime == [day |-> 0, month |-> 0, year |-> 0, hour |-> 0, minute |-> 0, second |-> 0]

\* mutant: hour and second change places
PackTime_Swapped(dt) == << dt.day, dt.month, dt.year - 2000, 0, dt.hour, dt.minute, dt.second, 0 >>

PackTime(dt) == << dt.day, dt.month, dt.year - 2000, 0, dt.second, dt.minute, dt.hour, 0 >>

set_local_time(c, dt, resp) ==
    LET e == execute(c, OpSetTime, PackTime(dt), resp)
    IN  IF e.status # "ok" THEN e ELSE [e EXCEPT !.buf = NoBuf]

device_time(c, v, resp) == write_request(c, VSFR_DEVICE_TIME, LE32(v), resp)

\* BytesBuffer.unpack_string: one length byte, then that many bytes
CanUnpackString(r) == CanUnpack(r, 1) /\ CanUnpack(r, 1 + Peek(r, 1)[1])

SkipString(r) == Skip(r, 1 + Peek(r, 1)[1])

\* values = <<boot_major, boot_minor, target_major, target_minor>>
fw_version(c, resp) ==
    LET e  == execute(c, OpFwVersion, None, resp)
        r  == e.buf
        r1 == Skip(r, 4)
        r2 == SkipString(r1)
        r3 == Skip(r2, 4)
        r4 == SkipString(r3)
    IN  IF e.status # "ok" THEN e
        ELSE IF ~CanUnpack(r, 4) THEN Raise(e, "Underflow")
        ELSE IF ~CanUnpackString(r1) THEN Raise(e, "Underflow")
        ELSE IF ~CanUnpack(r2, 4) THEN Raise(e, "Underflow")
        ELSE IF ~CanUnpackString(r3) THEN Raise(e, "Underflow")
        ELSE IF ~Exhausted(r4) THEN Raise(e, "TrailingBytes")
        ELSE [e EXCEPT !.buf = NoBuf,
                       !.values = << U16(Peek(Skip(r, 2), 2)), U16(Peek(r, 2)),
                                     U16(Peek(Skip(r2, 2), 2)), U16(Peek(r2, 2)) >>]

\* mutant: the minor version is compared whatever the major version is
FirmwareRejected_MinorOnly(ignore, vmaj, vmin) ==
    (ignore = FALSE /\ vmaj < 4) \/ vmin < 8

\* line 76: `A and B or C` groups as `(A and B) or C`
FirmwareRejected(ignore, vmaj, vmin) ==
    (ignore = FALSE /\ vmaj < 4) \/ (vmaj = 4 /\ vmin < 8)

\* the text returned by configuration(): the remaining bytes of the read buffer
configuration(c, resp) == read_request(c, VS_CONFIGURATION, resp)

(***************************************************************************)
(* RadiaCode.data_buf, spectrum, spectrum_accum.  The decoders themselves  *)
(* are not modelled: on a successful read, values holds the session value  *)
(* that is handed to the decoder together with the buffer.                 *)
(***************************************************************************)
Decode(e, session_value) ==
    IF e.status = "ok" THEN [e EXCEPT !.values = << session_value >>] ELSE e

data_buf(c, base, resp) == Decode(read_request(c, VS_DATA_BUF, resp), base)

spectrum(c, version, resp) == Decode(read_request(c, VS_SPECTRUM, resp), version)

spectrum_accum(c, version, resp) == Decode(read_request(c, VS_SPEC_ACCUM, resp), version)

(***************************************************************************)
(* Parsing SpecFormatVersion out of the configuration text (lines 82-86).  *)
(* Characters are their code points; the texts used are ASCII, which       *)
(* cp1251 decodes to the same code points.                                 *)
(***************************************************************************)
KeySpecFormatVersion ==
    <<83, 112, 101, 99, 70, 111, 114, 109, 97, 116, 86, 101, 114, 115, 105, 111, 110>>

ChNewline == 10

ChEquals == 61

ChZero == 48

\* str.split(sep): always at least one piece
RECURSIVE Split(_, _)
Split(text, sep) ==
    IF \A i \in 1..Len(text) : text[i] # sep THEN << text >>
    ELSE LET k == CHOOSE i \in 1..Len(text) :
                      text[i] = sep /\ \A j \in 1..(i - 1) : text[j] # sep
         IN  << SubSeq(text, 1, k - 1) >> \o Split(SubSeq(text, k + 1, Len(text)), sep)

StartsWith(line, prefix) ==
    Len(line) >= Len(prefix) /\ SubSeq(line, 1, Len(prefix)) = prefix

\* int() of a value: the values used in ConfigTexts are digit strings (accepted)
\* or a letter (ValueError)
IsDigits(str) == Len(str) > 0 /\ \A i \in 1..Len(str) : str[i] \in ChZero..(ChZero + 9)

RECURSIVE DigitsValue(_)
DigitsValue(str) ==
    IF str = <<>> THEN 0
    ELSE 10 * DigitsValue(SubSeq(str, 1, Len(str) - 1)) + (str[Len(str)] - ChZero)

\* the first line starting with the key, or <<>> when there is none
RECURSIVE FirstKeyLine(_)
FirstKeyLine(lines) ==
    IF lines = <<>> THEN << >>
    ELSE IF StartsWith(Head(lines), KeySpecFormatVersion) THEN << Head(lines) >>
    ELSE FirstKeyLine(Tail(lines))

\* [ok, version]: ok is FALSE when line.split('=')[1] or int() raises
ParseSpecFormatVersion(text) ==
    LET found == FirstKeyLine(Split(text, ChNewline))
    IN  IF found = << >> THEN [ok |-> TRUE, version |-> 0]
        ELSE LET parts == Split(found[1], ChEquals)
             IN  IF Len(parts) < 2 \/ ~IsDigits(parts[2])
                 THEN [ok |-> FALSE, version |-> 0]
                 ELSE [ok |-> TRUE, version |-> DigitsValue(parts[2])]

(***************************************************************************)
(* Inputs: what the caller passes and what the transport answers.          *)
(***************************************************************************)
Bits == {0, 1}                   \* bytes used to fill response payloads

Flips == {1, 128}                \* amounts by which a corrupted header byte is off

RetCodes == {0, 1, 257}          \* 257 = 01 01 00 00: only its low byte is 1

Words == {0, 258}                \* register values in batch answers

\* h with exactly one of its four bytes changed
Corrupt(h) == { [h EXCEPT ![i] = (h[i] + d) % 256] : i \in 1..4, d \in Flips }

\* answers with a wrong or truncated header in front of an acceptable payload,
\* and the transport failing
HeaderFaults(h, good) ==
    { Received(x \o good) : x \in Corrupt(h) }
        \cup { Received(SubSeq(h, 1, 3)), TransportFail }

Responses(h, payloads, good) ==
    { Received(h \o p) : p \in payloads } \cup HeaderFaults(h, good)

\* what the transport may answer to execute(reqtype, ...), if it is asked at all
Answers(reqtype, c, payloads, good) ==
    IF Len(reqtype) = 2 THEN Responses(ReqHeader(reqtype, c), payloads, good)
    ELSE { NoResponse }

ReadPayloads ==
    { LE32(rc) \o LE32(flen) \o d :
        rc \in RetCodes, flen \in 0..MaxDeclared, d \in SeqsUpTo(Bits, MaxData) }
        \cup { LE32(1), LE32(1) \o <<0, 0, 0>> }

WritePayloads ==
    { LE32(rc) \o t : rc \in RetCodes, t \in SeqsUpTo(Bits, 1) } \cup { <<1, 0, 0>> }

BatchPayloads(k) ==
    LET full == { BatchPayload(ws) : ws \in [1..k -> Words] }
        one  == BatchPayload([i \in 1..k |-> 258])
    IN  full \cup { SubSeq(one, 1, Len(one) - 1), SubSeq(one, 1, Len(one) - 4),
                    one \o <<0>>, one \o LE32(258) }

HostTimes ==
    { [day |-> 1, month |-> 11, year |-> 2026, hour |-> 5, minute |-> 25, second |-> 7],
      [day |-> 29, month |-> 2, year |-> 2024, hour |-> 23, minute |-> 59, second |-> 58] }

FwDate == <<50, 48, 50, 52>>     \* a length-prefixed date string's bytes

FwPayload(bmaj, bmin, tmaj, tmin) ==
    <<bmin % 256, bmin \div 256, bmaj % 256, bmaj \div 256>> \o <<Len(FwDate)>> \o FwDate
        \o <<tmin % 256, tmin \div 256, tmaj % 256, tmaj \div 256>> \o <<Len(FwDate)>> \o FwDate

FwVersions == { <<3, 8>>, <<4, 7>>, <<4, 8>>, <<4, 9>>, <<5, 0>> }

FwPayloads ==
    { FwPayload(b[1], b[2], t[1], t[2]) : b \in {<<3, 0>>, <<4, 9>>}, t \in FwVersions }
        \cup { FwPayload(4, 9, 4, 8) \o <<0>>,
               SubSeq(FwPayload(4, 9, 4, 8), 1, 10) }

KeyLine(value) == KeySpecFormatVersion \o <<ChEquals>> \o value

ConfigTexts ==
    { <<>>,
      KeyLine(<<49>>),
      <<65, 61, 55, 10>> \o KeyLine(<<48>>) \o <<10>> \o KeyLine(<<49>>),
      <<65, 61, 55, 10, 66, 61, 49>>,
      KeySpecFormatVersion,
      KeyLine(<<120>>) }

ConfigPayloads ==
    { LE32(1) \o LE32(Len(t)) \o t : t \in ConfigTexts }
        \cup { LE32(1) \o LE32(Len(KeyLine(<<49>>))) \o KeyLine(<<49>>) \o <<0>>,
               LE32(1) \o LE32(Len(KeyLine(<<49>>))) \o KeyLine(<<49>>) \o <<10>>,
               LE32(0) \o LE32(Len(KeyLine(<<49>>))) \o KeyLine(<<49>>) }

\* answers to the reads whose payload goes to a decoder: accepted as is,
\* accepted after the trim, refused by the device, of the wrong length
DecodePayloads ==
    { LE32(1) \o LE32(2) \o <<1, 0>>, LE32(1) \o LE32(2) \o <<1, 0, 0>>,
      LE32(0) \o LE32(0), LE32(1) \o LE32(1) }

ExecOpcodes == { <<5>>, <<5, 0>>, <<1, 1>>, <<5, 0, 0>> }

ExecArgs == { None, <<>>, <<9, 0>> }

ExecPayloads == { <<>>, <<1, 0, 0, 0>> }

ReadIds == { VS_CONFIGURATION, VS_DATA_BUF }

WriteArgs == { <<VSFR_DEVICE_TIME, None>>, <<VSFR_DEVICE_TIME, <<>> >>,
               <<VSFR_SOUND_ON, <<1, 0, 0, 0>> >> }

BatchIds == SeqsUpTo({VSFR_DEVICE_TIME, VSFR_SOUND_ON}, MaxBatch)

(***************************************************************************)
(* Writes that decode a return code themselves, and the device settings.   *)
(***************************************************************************)
OpWriteVs == <<39, 8>>    \* b'\x27\x08'

VSFR_DEVICE_LANG == 1282

VSFR_DEVICE_ON == 1283

VSFR_DISP_BRT == 1297

VSFR_DISP_OFF_TIME == 1299

VSFR_VIBRO_CTRL == 1328

VSFR_VIBRO_ON == 1329

CTRL_BUTTONS == 1

CTRL_CLICKS == 2

CTRL_DOSE_RATE_ALARM_1 == 4

\* an assert on the arguments failed: nothing was built, nothing was sent
Refused(c) == Outcome("Precondition", c, FALSE, <<>>, NoResponse, NoBuf, <<>>)

\* struct.pack('<I', bool(x))
PackBool(b) == LE32(IF b THEN 1 ELSE 0)

\* struct.pack('<f', x) of the coefficients 0.0 (written 0) and 1.0 (written 1)
PackF32(x) == IF x = 0 THEN <<0, 0, 0, 0>> ELSE <<0, 0, 128, 63>>

RECURSIVE BitOr(_, _)
BitOr(a, b) ==
    IF a = 0 THEN b
    ELSE IF b = 0 THEN a
    ELSE (IF a % 2 = 1 \/ b % 2 = 1 THEN 1 ELSE 0) + 2 * BitOr(a \div 2, b \div 2)

RECURSIVE OrAll(_, _)
OrAll(ctrls, flags) ==
    IF ctrls = <<>> THEN flags
    ELSE OrAll(Tail(ctrls), BitOr(flags, Head(ctrls)))

Has(ctrls, c) == \E i \in 1..Len(ctrls) : ctrls[i] = c

spectrum_reset(c, resp) ==
    LET e == execute(c, OpWriteVs, LE32(VS_SPECTRUM) \o LE32(0), resp)
        r == e.buf
    IN  IF e.status # "ok" THEN e
        ELSE IF ~CanUnpack(r, 4) THEN Raise(e, "Underflow")
        ELSE IF ~RetcodeOk(U32(Peek(r, 4))) THEN Raise(e, "DeviceRejected")
        ELSE IF ~Exhausted(Skip(r, 4)) THEN Raise(e, "TrailingBytes")
        ELSE [e EXCEPT !.buf = NoBuf]

EnergyCalibPayload(coef) ==
    LET packed == Concat([i \in 1..Len(coef) |-> PackF32(coef[i])])
    IN  LE32(VS_ENERGY_CALIB) \o LE32(Len(packed)) \o packed

\* the bytes after the return code are not looked at (lines 357-359)
set_energy_calib(c, coef, resp) ==
    IF Len(coef) # 3 THEN Refused(c)
    ELSE LET e == execute(c, OpWriteVs, EnergyCalibPayload(coef), resp)
             r == e.buf
         IN  IF e.status # "ok" THEN e
             ELSE IF ~CanUnpack(r, 4) THEN Raise(e, "Underflow")
             ELSE IF ~RetcodeOk(U32(Peek(r, 4))) THEN Raise(e, "DeviceRejected")
             ELSE [e EXCEPT !.buf = NoBuf]

set_language(c, lang, resp) ==
    IF lang \notin {"ru", "en"} THEN Refused(c)
    ELSE write_request(c, VSFR_DEVICE_LANG, PackBool(lang = "en"), resp)

set_device_on(c, on, resp) ==
    IF on THEN Refused(c)
    ELSE write_request(c, VSFR_DEVICE_ON, PackBool(on), resp)

set_sound_on(c, on, resp) == write_request(c, VSFR_SOUND_ON, PackBool(on), resp)

\* line 403 names VSFR.SOUND_ON
set_vibro_on(c, on, resp) == write_request(c, VSFR_SOUND_ON, PackBool(on), resp)

DisplayOffValue(seconds) == IF seconds = 30 THEN 3 ELSE (seconds \div 5) - 1

set_display_off_time(c, seconds, resp) ==
    IF seconds \notin {5, 10, 15, 30} THEN Refused(c)
    ELSE write_request(c, VSFR_DISP_OFF_TIME, LE32(DisplayOffValue(seconds)), resp)

set_display_brightness(c, brightness, resp) ==
    IF ~(0 <= brightness /\ brightness <= 9) THEN Refused(c)
    ELSE write_request(c, VSFR_DISP_BRT, LE32(brightness), resp)

\* mutant: CTRL.CLICKS is let through
set_vibro_ctrl_ClicksAllowed(c, ctrls, resp) ==
    write_request(c, VSFR_VIBRO_CTRL, LE32(OrAll(ctrls, 0)), resp)

\* the loop asserts on each flag before or-ing it in; the write follows the loop
set_vibro_ctrl(c, ctrls, resp) ==
    IF Has(ctrls, CTRL_CLICKS) THEN Refused(c)
    ELSE write_request(c, VSFR_VIBRO_CTRL, LE32(OrAll(ctrls, 0)), resp)

\* arguments of the setters
CoefLists == { <<>>, <<0, 1>>, <<0, 1, 0>>, <<1, 1, 0>>, <<0, 1, 0, 0>> }

Langs == { "ru", "en", "de" }

OffTimes == { 0, 5, 10, 15, 20, 30 }

Brightnesses == { -1, 0, 9, 10 }

CtrlLists == { <<>>, <<CTRL_BUTTONS>>, <<CTRL_BUTTONS, CTRL_DOSE_RATE_ALARM_1>>,
               <<CTRL_CLICKS>>, <<CTRL_BUTTONS, CTRL_CLICKS>> }

\* what the transport may answer to a setter
SetterAnswers(reqtype, c) == Answers(reqtype, c, WritePayloads, LE32(1))

(***************************************************************************)
(* The session.                                                            *)
(***************************************************************************)
\* arg is the caller's argument where it is not a byte string or an id
Call(op, reqtype, args, id, ids, c0, e) ==
    [op |-> op, reqtype |-> reqtype, args |-> args, id |-> id, ids |-> ids, c0 |-> c0,
     arg |-> <<>>, status |-> e.status, sent |-> e.sent, request |-> e.request,
     response |-> e.response, buf |-> e.buf, values |-> e.values]

\* no call is in progress and no result is pending
Idle == Call("idle", <<>>, None, -1, <<>>, 0,
             Outcome("ok", 0, FALSE, <<>>, NoResponse, NoBuf, <<>>))

Init ==
    /\ pc = "init_cmd"
    /\ seq = 0
    /\ base_time = NoTime
    /\ sfv = -1
    /\ ignore_fw \in BOOLEAN
    /\ nreq = 0
    /\ exchanges = <<>>
    /\ sent_byte = -1
    /\ last = Call("new", <<>>, None, -1, <<>>, 0,
                   Outcome("ok", 0, FALSE, <<>>, NoResponse, NoBuf, <<>>))

\* mutant: after a transport error the same request is handed over once more
Exchange_Resends(e, initializing) ==
    /\ seq' = e.seq
    /\ nreq' = IF ~e.sent THEN nreq
               ELSE IF e.status = "TransportError" THEN nreq + 2 ELSE nreq + 1
    /\ exchanges' = IF e.sent /\ initializing THEN Append(exchanges, e.request)
                    ELSE exchanges
    /\ sent_byte' = IF e.sent THEN e.request[8] ELSE sent_byte

\* the bookkeeping every call shares: the counter and what went to the transport
Exchange(e, initializing) ==
    /\ seq' = e.seq
    /\ nreq' = IF e.sent THEN nreq + 1 ELSE nreq
    /\ exchanges' = IF e.sent /\ initializing THEN Append(exchanges, e.request)
                    ELSE exchanges
    /\ sent_byte' = IF e.sent THEN e.request[8] ELSE sent_byte

\* mutant: a failed step is swallowed and the constructor carries on
AfterStep_Continues(e, next) == next

\* an exception raised by a step leaves __init__: no object is constructed
AfterStep(e, next) == IF e.status = "ok" THEN next ELSE "Failed"

\* line 69
InitCommand ==
    /\ pc = "init_cmd"
    /\ \E resp \in Answers(OpInit, seq, {<<>>, <<0>>}, <<>>) :
         LET e == execute(seq, OpInit, InitArgs, resp)
         IN  /\ Exchange(e, TRUE)
             /\ pc' = AfterStep(e, "set_time")
             /\ last' = Call("init_command", OpInit, InitArgs, -1, <<>>, seq, e)
    /\ UNCHANGED <<base_time, sfv, ignore_fw>>

\* lines 70-71
InitSetLocalTime ==
    /\ pc = "set_time"
    /\ \E now \in HostTimes, resp \in Answers(OpSetTime, seq, {<<>>, <<0>>}, <<>>) :
         LET e == set_local_time(seq, now, resp)
         IN  /\ base_time' = now
             /\ Exchange(e, TRUE)
             /\ pc' = AfterStep(e, "dev_time")
             /\ last' = Call("set_local_time", OpSetTime, PackTime(now), -1, <<>>, seq, e)
    /\ UNCHANGED <<sfv, ignore_fw>>

\* line 72
InitDeviceTime ==
    /\ pc = "dev_time"
    /\ \E resp \in Answers(OpWrite, seq, WritePayloads, LE32(1)) :
         LET e == device_time(seq, 0, resp)
         IN  /\ Exchange(e, TRUE)
             /\ pc' = AfterStep(e, "fw_version")
             /\ last' = Call("device_time", OpWrite, LE32(0), VSFR_DEVICE_TIME, <<>>, seq, e)
    /\ UNCHANGED <<base_time, sfv, ignore_fw>>

\* lines 75-79
InitFwVersion ==
    /\ pc = "fw_version"
    /\ \E resp \in Answers(OpFwVersion, seq, FwPayloads, FwPayload(4, 9, 4, 8)) :
         LET e        == fw_version(seq, resp)
             rejected == e.status = "ok"
                            /\ FirmwareRejected(ignore_fw, e.values[3], e.values[4])
             checked  == IF rejected THEN [e EXCEPT !.status = "IncompatibleFirmware"]
                         ELSE e
         IN  /\ Exchange(e, TRUE)
             /\ pc' = AfterStep(checked, "config")
             /\ last' = Call("fw_version", OpFwVersion, None, -1, <<>>, seq, checked)
    /\ UNCHANGED <<base_time, sfv, ignore_fw>>

\* lines 82-86
InitConfiguration ==
    /\ pc = "config"
    /\ \E resp \in Answers(OpRead, seq, ConfigPayloads, LE32(1) \o LE32(0)) :
         LET e      == configuration(seq, resp)
             parsed == IF e.status = "ok" THEN ParseSpecFormatVersion(data(e.buf))
                       ELSE [ok |-> FALSE, version |-> 0]
             scanned == IF e.status = "ok" /\ ~parsed.ok
                        THEN [e EXCEPT !.status = "ParseError"] ELSE e
         IN  /\ Exchange(e, TRUE)
             /\ sfv' = parsed.version
             /\ pc' = AfterStep(scanned, "Ready")
             /\ last' = Call("configuration", OpRead, LE32(VS_CONFIGURATION),
                             VS_CONFIGURATION, <<>>, seq, scanned)
    /\ UNCHANGED <<base_time, ignore_fw>>

Execute ==
    /\ pc = "Ready" /\ nreq < MaxRequests
    /\ \E reqtype \in ExecOpcodes, args \in ExecArgs :
         \E resp \in Answers(reqtype, seq, ExecPayloads, <<>>) :
           LET e == execute(seq, reqtype, args, resp)
           IN  /\ Exchange(e, FALSE)
               /\ last' = Call("execute", reqtype, args, -1, <<>>, seq, e)
    /\ pc' = "Returned"
    /\ UNCHANGED <<base_time, sfv, ignore_fw>>

ReadRequest ==
    /\ pc = "Ready" /\ nreq < MaxRequests
    /\ \E command_id \in ReadIds :
         \E resp \in Answers(OpRead, seq, ReadPayloads, LE32(1) \o LE32(0)) :
           LET e == read_request(seq, command_id, resp)
           IN  /\ Exchange(e, FALSE)
               /\ last' = Call("read_request", OpRead, LE32(command_id), command_id,
                               <<>>, seq, e)
    /\ pc' = "Returned"
    /\ UNCHANGED <<base_time, sfv, ignore_fw>>

WriteRequest ==
    /\ pc = "Ready" /\ nreq < MaxRequests
    /\ \E w \in WriteArgs :
         \E resp \in Answers(OpWrite, seq, WritePayloads, LE32(1)) :
           LET e == write_request(seq, w[1], w[2], resp)
           IN  /\ Exchange(e, FALSE)
               /\ last' = Call("write_request", OpWrite, w[2], w[1], <<>>, seq, e)
    /\ pc' = "Returned"
    /\ UNCHANGED <<base_time, sfv, ignore_fw>>

BatchReadVsfrs ==
    /\ pc = "Ready" /\ nreq < MaxRequests
    /\ \E vsfr_ids \in BatchIds :
         \E resp \in IF Len(vsfr_ids) = 0 THEN { NoResponse }
                     ELSE Answers(OpBatch, seq, BatchPayloads(Len(vsfr_ids)),
                                  BatchPayload([i \in 1..Len(vsfr_ids) |-> 258])) :
           LET e == batch_read_vsfrs(seq, vsfr_ids, resp)
           IN  /\ Exchange(e, FALSE)
               /\ last' = Call("batch_read_vsfrs", OpBatch, None, -1, vsfr_ids, seq, e)
    /\ pc' = "Returned"
    /\ UNCHANGED <<base_time, sfv, ignore_fw>>

\* a public operation may be called on a constructed session
CanCall == pc = "Ready" /\ nreq < MaxRequests

\* the call ends: its exchange is accounted for and the session is otherwise untouched
Returns(call, e) ==
    /\ Exchange(e, FALSE)
    /\ last' = call
    /\ pc' = "Returned"
    /\ UNCHANGED <<base_time, sfv, ignore_fw>>

\* mutant: calling configuration() again negotiates the format version again
Configuration_Renegotiates ==
    /\ CanCall
    /\ \E resp \in Answers(OpRead, seq, ConfigPayloads, LE32(1) \o LE32(0)) :
         LET e      == configuration(seq, resp)
             parsed == IF e.status = "ok" THEN ParseSpecFormatVersion(data(e.buf))
                       ELSE [ok |-> FALSE, version |-> sfv]
         IN  /\ Exchange(e, FALSE)
             /\ last' = Call("configuration", OpRead, LE32(VS_CONFIGURATION),
                             VS_CONFIGURATION, <<>>, seq, e)
             /\ pc' = "Returned"
             /\ sfv' = parsed.version
             /\ UNCHANGED <<base_time, ignore_fw>>

Configuration ==
    /\ CanCall
    /\ \E resp \in Answers(OpRead, seq, ConfigPayloads, LE32(1) \o LE32(0)) :
         LET e == configuration(seq, resp)
         IN  Returns(Call("configuration", OpRead, LE32(VS_CONFIGURATION),
                          VS_CONFIGURATION, <<>>, seq, e), e)

DataBuf ==
    /\ CanCall
    /\ \E resp \in Answers(OpRead, seq, DecodePayloads, LE32(1) \o LE32(0)) :
         LET e == data_buf(seq, base_time, resp)
         IN  Returns(Call("data_buf", OpRead, LE32(VS_DATA_BUF), VS_DATA_BUF,
                          <<>>, seq, e), e)

SpectrumRead ==
    /\ CanCall
    /\ \E resp \in Answers(OpRead, seq, DecodePayloads, LE32(1) \o LE32(0)) :
         LET e == spectrum(seq, sfv, resp)
         IN  Returns(Call("spectrum", OpRead, LE32(VS_SPECTRUM), VS_SPECTRUM,
                          <<>>, seq, e), e)

SpectrumAccum ==
    /\ CanCall
    /\ \E resp \in Answers(OpRead, seq, DecodePayloads, LE32(1) \o LE32(0)) :
         LET e == spectrum_accum(seq, sfv, resp)
         IN  Returns(Call("spectrum_accum", OpRead, LE32(VS_SPEC_ACCUM), VS_SPEC_ACCUM,
                          <<>>, seq, e), e)

\* a setter was called with argument x
Setter(op, x, e) == Returns([Call(op, <<>>, None, -1, <<>>, seq, e) EXCEPT !.arg = <<x>>], e)

SpectrumReset ==
    /\ CanCall
    /\ \E resp \in SetterAnswers(OpWriteVs, seq) :
         LET e == spectrum_reset(seq, resp)
         IN  Returns(Call("spectrum_reset", OpWriteVs, LE32(VS_SPECTRUM) \o LE32(0),
                          VS_SPECTRUM, <<>>, seq, e), e)

SetEnergyCalib ==
    /\ CanCall
    /\ \E coef \in CoefLists, resp \in SetterAnswers(OpWriteVs, seq) :
         Setter("set_energy_calib", coef, set_energy_calib(seq, coef, resp))

SetLanguage ==
    /\ CanCall
    /\ \E lang \in Langs, resp \in SetterAnswers(OpWrite, seq) :
         Setter("set_language", lang, set_language(seq, lang, resp))

SetDeviceOn ==
    /\ CanCall
    /\ \E on \in BOOLEAN, resp \in SetterAnswers(OpWrite, seq) :
         Setter("set_device_on", on, set_device_on(seq, on, resp))

SetSoundOn ==
    /\ CanCall
    /\ \E on \in BOOLEAN, resp \in SetterAnswers(OpWrite, seq) :
         Setter("set_sound_on", on, set_sound_on(seq, on, resp))

SetVibroOn ==
    /\ CanCall
    /\ \E on \in BOOLEAN, resp \in SetterAnswers(OpWrite, seq) :
         Setter("set_vibro_on", on, set_vibro_on(seq, on, resp))

SetDisplayOffTime ==
    /\ CanCall
    /\ \E seconds \in OffTimes, resp \in SetterAnswers(OpWrite, seq) :
         Setter("set_display_off_time", seconds, set_display_off_time(seq, seconds, resp))

SetDisplayBrightness ==
    /\ CanCall
    /\ \E brightness \in Brightnesses, resp \in SetterAnswers(OpWrite, seq) :
         Setter("set_display_brightness", brightness,
                set_display_brightness(seq, brightness, resp))

SetVibroCtrl ==
    /\ CanCall
    /\ \E ctrls \in CtrlLists, resp \in SetterAnswers(OpWrite, seq) :
         Setter("set_vibro_ctrl", ctrls, set_vibro_ctrl(seq, ctrls, resp))

\* the caller takes the result (or the exception) and is free to call again
Return ==
    /\ pc = "Returned"
    /\ pc' = "Ready"
    /\ last' = Idle
    /\ UNCHANGED <<seq, base_time, sfv, ignore_fw, nreq, exchanges, sent_byte>>

Next ==
    \/ InitCommand
    \/ InitSetLocalTime
    \/ InitDeviceTime
    \/ InitFwVersion
    \/ InitConfiguration
    \/ Execute
    \/ ReadRequest
    \/ WriteRequest
    \/ BatchReadVsfrs
    \/ Configuration
    \/ DataBuf
    \/ SpectrumRead
    \/ SpectrumAccum
    \/ SpectrumReset
    \/ SetEnergyCalib
    \/ SetLanguage
    \/ SetDeviceOn
    \/ SetSoundOn
    \/ SetVibroOn
    \/ SetDisplayOffTime
    \/ SetDisplayBrightness
    \/ SetVibroCtrl
    \/ Return

Spec == Init /\ [][Next]_vars

(***************************************************************************)
(* spectrum_channel_to_energy, a function of the module: the energies of   *)
(* channels 0, 1, 2, ... of one calibration, computed one after the other. *)
(* last.arg holds <<a0, a1, a2>> and last.values the energies so far.      *)
(***************************************************************************)
\* mutant: the linear term is subtracted
spectrum_channel_to_energy_Minus(channel_number, a0, a1, a2) ==
    a0 - a1 * channel_number + a2 * channel_number * channel_number

spectrum_channel_to_energy(channel_number, a0, a1, a2) ==
    a0 + a1 * channel_number + a2 * channel_number * channel_number

Coefs == (0 - MaxCoef)..MaxCoef

InitEnergy ==
    /\ pc = "energy"
    /\ seq = 0
    /\ base_time = NoTime
    /\ sfv = -1
    /\ ignore_fw = FALSE
    /\ nreq = 0
    /\ exchanges = <<>>
    /\ sent_byte = -1
    /\ \E a0 \in Coefs, a1 \in Coefs, a2 \in Coefs :
         last = [Idle EXCEPT !.op = "spectrum_channel_to_energy", !.arg = <<a0, a1, a2>>]

ChannelToEnergy ==
    /\ pc = "energy"
    /\ Len(last.values) <= MaxChannel
    /\ last' = [last EXCEPT !.values =
                  Append(@, spectrum_channel_to_energy(Len(@), last.arg[1], last.arg[2],
                                                       last.arg[3]))]
    /\ UNCHANGED <<pc, seq, base_time, sfv, ignore_fw, nreq, exchanges, sent_byte>>

NextEnergy == ChannelToEnergy

SpecEnergy == InitEnergy /\ [][NextEnergy]_vars

(***************************************************************************)
(* Properties.  They read the exchange of the last call off `last`: the    *)
(* bytes handed to the transport and the bytes it answered are decoded     *)
(* here byte by byte, independently of the operators above.                *)
(***************************************************************************)
WordAt(bytes, i) ==
    bytes[i] + 256 * bytes[i + 1] + 65536 * bytes[i + 2] + 16777216 * bytes[i + 3]

\* the 4 header bytes of the request that was sent (they follow the length prefix)
SentHeader == SubSeq(last.request, 5, 8)

\* the transport answered with at least 4 bytes
Answered == last.sent /\ last.response.ok /\ Len(last.response.bytes) >= 4

EchoedHeader == SubSeq(last.response.bytes, 1, 4)

\* the bytes of the answer after its 4 header bytes
AnswerPayload == SubSeq(last.response.bytes, 5, Len(last.response.bytes))

\* the number of positions at which two 4-byte headers differ
Differences(h1, h2) == Cardinality({ i \in 1..4 : h1[i] # h2[i] })

\* C1: the sequence counter stays in 0..31; every request handed to the
\* transport carries the sequence byte 0x80 | c, a value in 0x80..0x9F, c being
\* the counter before the call, and leaves the counter at (c + 1) mod 32; the
\* k-th request of a session carries 0x80 + ((k - 1) mod 32).
C1_SequenceCounter ==
    /\ seq \in 0..31
    /\ last.sent =>
         /\ last.request[8] = BitOr(128, last.c0)
         /\ last.request[8] \in 128..159
         /\ seq = (last.c0 + 1) % 32
         /\ last.request[8] = 128 + ((nreq - 1) % 32)
    /\ (last.op = "execute" /\ Len(last.reqtype) = 2) => last.sent

\* C1 witness: the 33rd request of a session carries 0x80 again
C1_Witness ==
    /\ nreq = 33 /\ last.op = "execute" /\ last.sent
    /\ last.c0 = 0 /\ last.request[8] = 128 /\ seq = 1

\* C2: an answer whose first 4 bytes differ from the header just sent makes the
\* call fail with a protocol mismatch, and no buffer and no value is returned.
C2_HeaderMismatchFails ==
    (Answered /\ Differences(SentHeader, EchoedHeader) >= 1) =>
        /\ last.status = "ProtocolMismatch"
        /\ last.buf = NoBuf
        /\ last.values = <<>>

\* C2 witness: a register write whose answer is acceptable except that the
\* opcode's second byte alone is off
C2_Witness ==
    /\ last.op = "write_request" /\ Answered
    /\ { i \in 1..4 : SentHeader[i] # EchoedHeader[i] } = {2}
    /\ AnswerPayload = <<1, 0, 0, 0>>
    /\ last.status = "ProtocolMismatch"

\* the operations that pass last.args to execute unchanged
PassesArgs == { "execute", "init_command", "set_local_time", "fw_version",
                "read_request", "configuration" }

\* C3: the buffer execute hands to the transport is the 4-byte little-endian
\* value 4 + len(payload), the 2-byte opcode, 0x00, the sequence byte and the
\* payload, an absent payload counting as empty.
C3_RequestLayout ==
    (last.sent /\ last.op \in PassesArgs) =>
        LET payload == IF last.args = None THEN <<>> ELSE last.args
            n       == 4 + Len(payload)
        IN  /\ Len(last.reqtype) = 2
            /\ last.request = << n % 256, (n \div 256) % 256, (n \div 65536) % 256, 0 >>
                                \o last.reqtype \o << 0, 128 + last.c0 >> \o payload
            /\ WordAt(last.request, 1) = Len(last.request) - 4

\* C3 witness: a request sent without a payload, and so of declared length 4
C3_Witness ==
    /\ last.op = "execute" /\ last.sent /\ last.args = None /\ last.c0 = 7
    /\ last.request = <<4, 0, 0, 0, 1, 1, 0, 135>>

\* a read_request whose answer echoes the header and carries a return code
\* and a declared length
ReadAnswered ==
    /\ last.op = "read_request" /\ Answered
    /\ EchoedHeader = SentHeader
    /\ Len(AnswerPayload) >= 8

ReturnCode == WordAt(AnswerPayload, 1)

DeclaredLen == WordAt(AnswerPayload, 5)

\* the bytes that follow the length field
Body == SubSeq(AnswerPayload, 9, Len(AnswerPayload))

\* C4: return code 1, declared length L, L + 1 bytes after the length field:
\* a final 0x00 is trimmed and the call succeeds with L bytes remaining; any
\* other final byte is a length mismatch.
C4_TrailingZeroTolerance ==
    (ReadAnswered /\ ReturnCode = 1 /\ Len(Body) = DeclaredLen + 1) =>
        IF Body[Len(Body)] = 0
        THEN /\ last.status = "ok"
             /\ size(last.buf) = DeclaredLen
             /\ data(last.buf) = SubSeq(Body, 1, DeclaredLen)
        ELSE /\ last.status = "LengthMismatch"
             /\ last.buf = NoBuf

\* C4 witness: declared length 1, bytes 01 00: the 00 is trimmed, 01 is returned
C4_Witness ==
    /\ ReadAnswered /\ ReturnCode = 1 /\ DeclaredLen = 1 /\ Body = <<1, 0>>
    /\ last.status = "ok" /\ data(last.buf) = <<1>>

\* C5: read_request succeeds exactly when, the return code being 1, the bytes
\* after the length field are L bytes, or L + 1 bytes ending in 0x00; the cursor
\* it returns stands just after the length field with exactly L bytes remaining.
C5_LengthExact ==
    /\ (ReadAnswered /\ ReturnCode = 1) =>
         (last.status = "ok" <=>
            \/ Len(Body) = DeclaredLen
            \/ Len(Body) = DeclaredLen + 1 /\ Body[Len(Body)] = 0)
    /\ (last.op = "read_request" /\ last.status = "ok") =>
         /\ ReadAnswered /\ ReturnCode = 1
         /\ last.buf.pos = 12
         /\ size(last.buf) = DeclaredLen
         /\ data(last.buf) = SubSeq(Body, 1, DeclaredLen)

\* C5 witness: two extra bytes, both zero, are not tolerated
C5_Witness ==
    /\ ReadAnswered /\ ReturnCode = 1 /\ DeclaredLen = 1 /\ Body = <<1, 0, 0>>
    /\ last.status = "LengthMismatch" /\ last.buf = NoBuf

\* C6: read_request fails with a device rejection whenever the return code is
\* not 1, whatever the declared length and the bytes after it, and returns no
\* buffer.
C6_ReturnCodeFirst ==
    (ReadAnswered /\ ReturnCode # 1) =>
        /\ last.status = "DeviceRejected"
        /\ last.buf = NoBuf

\* C6 witness: return code 0 in front of a length that does not match either
C6_Witness ==
    /\ ReadAnswered /\ ReturnCode = 0 /\ DeclaredLen = 0 /\ Body = <<1, 1>>
    /\ last.status = "DeviceRejected"

\* C7: write_request sends opcode 25 08 with the 4-byte little-endian register
\* id followed by the data (nothing when absent), and succeeds exactly when
\* the answer is the echoed header followed by the 4 bytes 01 00 00 00.
C7_WriteRequest ==
    (last.op \in {"write_request", "device_time"}) =>
        LET wdata == IF last.args = None THEN <<>> ELSE last.args
            n     == 8 + Len(wdata)
        IN  /\ last.sent
            /\ last.request = << n, 0, 0, 0, 37, 8, 0, 128 + last.c0,
                                 last.id % 256, (last.id \div 256) % 256,
                                 (last.id \div 65536) % 256, 0 >> \o wdata
            /\ last.status = "ok" <=>
                 (last.response.ok /\ last.response.bytes = SentHeader \o <<1, 0, 0, 0>>)

\* C7 witness: return code 1 followed by one more byte is refused
C7_Witness ==
    /\ last.op = "write_request" /\ Answered /\ EchoedHeader = SentHeader
    /\ AnswerPayload = <<1, 0, 0, 0, 0>>
    /\ last.status = "TrailingBytes"

\* the ids of a batch request, 4 little-endian bytes each, in the order asked
RECURSIVE IdBytes(_)
IdBytes(ids) ==
    IF ids = <<>> THEN <<>>
    ELSE << Head(ids) % 256, (Head(ids) \div 256) % 256, (Head(ids) \div 65536) % 256, 0 >>
            \o IdBytes(Tail(ids))

\* C8: batch_read_vsfrs with k >= 1 ids sends them all, in order, in one
\* request; it succeeds exactly when the answer's payload is 4k bytes, and then
\* returns k values, the i-th being the i-th little-endian word of the
\* payload; otherwise it returns no value at all.
C8_BatchRead ==
    (last.op = "batch_read_vsfrs" /\ Len(last.ids) >= 1) =>
        LET k == Len(last.ids)
        IN  /\ last.sent
            /\ last.request = << 4 + 4 * k, 0, 0, 0, 42, 8, 0, 128 + last.c0 >>
                                \o IdBytes(last.ids)
            /\ last.status = "ok" <=>
                 (Answered /\ EchoedHeader = SentHeader /\ Len(AnswerPayload) = 4 * k)
            /\ last.status = "ok" =>
                 /\ Len(last.values) = k
                 /\ \A i \in 1..k : last.values[i] = WordAt(AnswerPayload, 4 * i - 3)
            /\ last.status # "ok" => last.values = <<>>

\* C8 witness: two ids asked, two different values returned in the same order
C8_Witness ==
    /\ last.op = "batch_read_vsfrs" /\ last.ids = <<1314, 1284>>
    /\ AnswerPayload = <<0, 0, 0, 0, 2, 1, 0, 0>>
    /\ last.status = "ok" /\ last.values = <<0, 258>>

Initialized == pc \in {"Ready", "Returned"}

\* C9: a successful initialization has made exactly five exchanges, in this
\* order: the initialization command, set-local-time carrying the recorded base
\* time, the write of 0 to the device-time register, the firmware-version
\* read, the configuration read; each step starts when the previous ones have
\* completed, and the session is Ready with the counter at 5.
C9_InitOrder ==
    /\ (pc = "init_cmd") => Len(exchanges) = 0
    /\ (pc = "set_time") => Len(exchanges) = 1
    /\ (pc = "dev_time") => Len(exchanges) = 2
    /\ (pc = "fw_version") => Len(exchanges) = 3
    /\ (pc = "config") => Len(exchanges) = 4
    /\ Initialized =>
         /\ Len(exchanges) = 5
         /\ exchanges[1] = <<8, 0, 0, 0, 7, 0, 0, 128, 1, 255, 18, 255>>
         /\ exchanges[2] = <<12, 0, 0, 0, 4, 10, 0, 129,
                             base_time.day, base_time.month, base_time.year - 2000, 0,
                             base_time.second, base_time.minute, base_time.hour, 0>>
         /\ exchanges[3] = <<12, 0, 0, 0, 37, 8, 0, 130, 4, 5, 0, 0, 0, 0, 0, 0>>
         /\ exchanges[4] = <<4, 0, 0, 0, 10, 0, 0, 131>>
         /\ exchanges[5] = <<8, 0, 0, 0, 38, 8, 0, 132, 2, 0, 0, 0>>
         /\ base_time \in HostTimes
         /\ sfv >= 0
    /\ (pc = "Ready" /\ last.op = "configuration") =>
         /\ seq = 5 /\ nreq = 5
         /\ last.status = "ok"
         /\ sfv = ParseSpecFormatVersion(data(last.buf)).version

\* C9 witness: a session that has just become Ready, with format version 1
C9_Witness ==
    /\ pc = "Ready" /\ last.op = "configuration" /\ seq = 5 /\ sfv = 1
    /\ Len(exchanges) = 5 /\ base_time.hour = 23

\* the firmware-version read itself went through: the answer was well formed
FwVersionRead ==
    last.op = "fw_version" /\ last.status \in {"ok", "IncompatibleFirmware"}

\* C10: with ignore_firmware_compatibility_check = True, initialization never
\* fails because of the firmware version: whatever version the device reports,
\* it proceeds to the configuration read.
C10_AdvisoryOnly ==
    (FwVersionRead /\ ignore_fw) => (last.status = "ok" /\ pc = "config")

\* the versions in a well-formed firmware answer, read off its bytes: the boot
\* version, a length-prefixed date, the target version, a second date
BootMajor == AnswerPayload[3] + 256 * AnswerPayload[4]

TargetAt == 4 + 1 + AnswerPayload[5]

TargetMinor == AnswerPayload[TargetAt + 1] + 256 * AnswerPayload[TargetAt + 2]

TargetMajor == AnswerPayload[TargetAt + 3] + 256 * AnswerPayload[TargetAt + 4]

\* C11: with the compatibility check enabled, initialization fails with the
\* incompatible-firmware error exactly when the target version is below 4.8
\* (major < 4, or major = 4 and minor < 8); the boot version plays no part.
C11_FirmwarePolicy ==
    (FwVersionRead /\ ~ignore_fw) =>
        /\ last.status = "IncompatibleFirmware" <=>
             (TargetMajor < 4 \/ (TargetMajor = 4 /\ TargetMinor < 8))
        /\ last.status = "IncompatibleFirmware" => pc = "Failed"
        /\ last.status = "ok" => pc = "config"

\* C11 witness: target 5.0 is accepted although its minor is below 8 and the
\* boot version is 3.0
C11_Witness ==
    /\ FwVersionRead /\ ~ignore_fw
    /\ BootMajor = 3 /\ TargetMajor = 5 /\ TargetMinor = 0
    /\ last.status = "ok" /\ pc = "config"

\* the steps of __init__ and their place in the sequence
InitSteps == << "init_command", "set_local_time", "device_time", "fw_version",
                "configuration" >>

StepOf(op) == CHOOSE i \in 1..5 : InitSteps[i] = op

InitStepEnded == pc # "Returned" /\ last.op \in { InitSteps[i] : i \in 1..5 }

\* C12: when a step of the initialization fails, initialization ends in the
\* failed state at that step: the failed step's request is the last one
\* sent, it was sent once, no later step has sent anything, and the session
\* is not Ready.
C12_InitFailureIsTerminal ==
    /\ (InitStepEnded /\ last.status # "ok") =>
         /\ pc = "Failed"
         /\ last.sent
         /\ nreq = StepOf(last.op)
         /\ Len(exchanges) = StepOf(last.op)
         /\ exchanges[Len(exchanges)] = last.request
         /\ \A i \in 1..Len(exchanges) : exchanges[i][8] = 128 + (i - 1)
         /\ seq = StepOf(last.op)
    /\ (pc = "Failed") => (InitStepEnded /\ last.status # "ok")
    /\ (InitStepEnded /\ last.status = "ok") => pc # "Failed"

\* C12 witness: the device refuses the write of the device-time register at
\* step (c): three requests were sent and nothing follows
C12_Witness ==
    /\ pc = "Failed" /\ last.op = "device_time" /\ last.status = "DeviceRejected"
    /\ nreq = 3 /\ Len(exchanges) = 3

\* C13: once the session is initialized no operation, successful or not,
\* changes the base time or the spectrum format version; the counter changes
\* only when a request is sent; configuration() called again leaves the
\* format version alone, and data_buf, spectrum and spectrum_accum hand their
\* decoder the values the session already had.
C13_SessionImmutable ==
    [][ Initialized =>
          /\ base_time' = base_time
          /\ sfv' = sfv
          /\ exchanges' = exchanges
          /\ (seq' # seq) => (last'.sent /\ nreq' = nreq + 1)
          /\ (last'.op \in {"spectrum", "spectrum_accum"} /\ last'.status = "ok") =>
                last'.values = << sfv >>
          /\ (last'.op = "data_buf" /\ last'.status = "ok") =>
                last'.values = << base_time >> ]_vars

\* C13 witness: the session negotiated version 0, a later configuration()
\* returns a text that says SpecFormatVersion=1, and the version is still 0
C13_Witness ==
    /\ pc = "Returned" /\ last.op = "configuration" /\ last.status = "ok"
    /\ ParseSpecFormatVersion(data(last.buf)).version = 1
    /\ sfv = 0

\* C14: every call hands at most one request buffer to the transport, and
\* takes exactly one answer (a response or an exception) for the one it
\* handed over; the count of requests moves by one per exchange, also when
\* the call fails, so nothing is sent twice and nothing is sent while an
\* answer is outstanding.
C14_OneRequestOneResponse ==
    [][ /\ nreq' \in {nreq, nreq + 1}
        /\ (nreq' = nreq + 1) <=> last'.sent
        /\ last'.sent =>
             /\ last'.response # NoResponse
             /\ WordAt(last'.request, 1) = Len(last'.request) - 4
             /\ last'.request[8] = 128 + seq
        /\ ~last'.sent => (last'.response = NoResponse /\ last'.request = <<>>) ]_vars

\* C14 witness: a call that failed on a transport error, after one request
C14_Witness ==
    /\ pc = "Returned" /\ last.op = "read_request" /\ last.sent
    /\ last.status = "TransportError" /\ last.response = TransportFail
    /\ nreq = 6

\* the operations that return execute's buffer to their caller as it is
ReturnsBuffer == { "execute", "init_command" }

\* C15: when the answer begins with the 4 header bytes that went out in the
\* request (opcode, 0x00, sequence byte), execute succeeds and returns the
\* answer with the cursor just after the header: what is left to read is
\* exactly the rest of the answer.
C15_FramingRoundTrip ==
    (last.op \in ReturnsBuffer /\ Answered /\ EchoedHeader = SentHeader) =>
        /\ SentHeader = last.reqtype \o << 0, 128 + last.c0 >>
        /\ last.status = "ok"
        /\ last.buf.data = last.response.bytes
        /\ last.buf.pos = 4
        /\ size(last.buf) = Len(last.response.bytes) - 4
        /\ data(last.buf) = AnswerPayload

\* C15 witness: four bytes follow the echoed header and are left to read
C15_Witness ==
    /\ last.op = "execute" /\ Answered /\ EchoedHeader = SentHeader
    /\ last.args = <<9, 0>> /\ last.c0 = 31
    /\ last.status = "ok" /\ data(last.buf) = <<1, 0, 0, 0>>

\* C16: with a1 > 0 and a2 = 0 the energy is non-decreasing in the channel
\* number: for channels c1 <= c2 the energy of c1 is at most that of c2, and
\* channel 0 has energy a0.
C16_EnergyMonotone ==
    (last.op = "spectrum_channel_to_energy" /\ last.arg[2] > 0 /\ last.arg[3] = 0) =>
        /\ \A i \in 1..Len(last.values) : \A j \in i..Len(last.values) :
             last.values[i] <= last.values[j]
        /\ Len(last.values) >= 1 => last.values[1] = last.arg[1]

\* C16 witness: a linear calibration whose energies were computed for
\* channels 0..3 and do rise
C16_Witness ==
    /\ last.op = "spectrum_channel_to_energy"
    /\ last.arg = <<-2, 1, 0>>
    /\ Len(last.values) = 4 /\ last.values[4] > last.values[1]

\* C17: the counter is advanced when the request is built and is not put back
\* when the exchange fails: every request carries the byte of the counter as
\* it stands, the counter then stands at (c + 1) mod 32 whatever the outcome,
\* and a request never carries the sequence byte of the request before it.
C17_CounterNotRolledBack ==
    [][ last'.sent =>
          /\ last'.request[8] = 128 + seq
          /\ seq' = (seq + 1) % 32
          /\ sent_byte # -1 =>
               /\ last'.request[8] # sent_byte
               /\ last'.request[8] = 128 + ((sent_byte - 128 + 1) % 32) ]_vars

\* C17 witness: a call that failed on a too-short answer with the counter at
\* 31 has left it at 0
C17_Witness ==
    /\ pc = "Returned" /\ last.sent /\ last.status = "Underflow"
    /\ Len(last.response.bytes) = 3
    /\ last.c0 = 31 /\ sent_byte = 159 /\ seq = 0

\* the call's arguments violate the operation's precondition
Violates(call) ==
    \/ call.op = "execute" /\ Len(call.reqtype) # 2
    \/ call.op = "batch_read_vsfrs" /\ call.ids = <<>>
    \/ call.op = "set_energy_calib" /\ Len(call.arg[1]) # 3
    \/ call.op = "set_language" /\ call.arg[1] \notin {"ru", "en"}
    \/ call.op = "set_device_on" /\ call.arg[1] = TRUE
    \/ call.op = "set_display_off_time" /\ call.arg[1] \notin {5, 10, 15, 30}
    \/ call.op = "set_display_brightness" /\ (call.arg[1] < 0 \/ call.arg[1] > 9)
    \/ call.op = "set_vibro_ctrl" /\ \E i \in 1..Len(call.arg[1]) : call.arg[1][i] = 2

\* C18: an operation called with an argument that violates its precondition
\* fails before anything is sent: no request reaches the transport and the
\* sequence counter is unchanged.
C18_PreconditionSendsNothing ==
    [][ Violates(last') =>
          /\ last'.status = "Precondition"
          /\ ~last'.sent /\ last'.request = <<>>
          /\ seq' = seq /\ nreq' = nreq /\ sent_byte' = sent_byte
          /\ exchanges' = exchanges ]_vars

\* C18 witness: set_vibro_ctrl([BUTTONS, CLICKS]) was refused with the counter
\* at 5, after the flag before CLICKS had passed the loop's assert
C18_Witness ==
    /\ pc = "Returned" /\ last.op = "set_vibro_ctrl" /\ last.arg = << <<1, 2>> >>
    /\ last.status = "Precondition" /\ ~last.sent
    /\ last.c0 = 5 /\ seq = 5 /\ sent_byte = 132

\* C19: write_request, spectrum_reset and set_energy_calib apply the same
\* acceptance rule: the operation succeeds if and only if the answer is the
\* echoed header, return code 1 and nothing after it; none accepts an answer
\* with bytes after the return code.
C19_SameAcceptanceRule ==
    (last.op \in {"write_request", "spectrum_reset", "set_energy_calib"} /\ last.sent) =>
        (last.status = "ok" <=>
            (last.response.ok /\ last.response.bytes = SentHeader \o <<1, 0, 0, 0>>))

\* C20: the write request issued by set_vibro_on carries the id of the
\* vibration register and never that of the sound register, which is the one
\* set_sound_on writes.
C20_VibroRegister ==
    /\ (last.op = "set_sound_on" /\ last.sent) => WordAt(last.request, 9) = 1314
    /\ (last.op = "set_vibro_on" /\ last.sent) =>
          /\ WordAt(last.request, 9) = 1329
          /\ WordAt(last.request, 9) # 1314

====
